---- MODULE Spec2Model ----
(***************************************************************************)
(* Stock-consistency and order-approval workflow of Stock-Manager.         *)
(* The storage layer (DatabaseStorage) and the HTTP handlers that drive it *)
(* are modelled as request processes: every `await` on a storage call is   *)
(* one atomic step against the shared tables, so that handlers can run one *)
(* after another (sequential specifications) or interleave between their   *)
(* storage calls (race specifications).                                    *)
(***************************************************************************)
EXTENDS Integers, Sequences, FiniteSets, TLC

\* ---------------------------------------------------------------- bounds
MaxProducts == 1
MaxMoves == 2
MaxOrders == 1
MaxItems == 1
MaxGrnItems == 1
MaxClock == 2

ProductIds == 1..MaxProducts
\* Two request slots: enough for one request at a time and for a race of two.
ReqIds == {1, 2}
\* the quantities the requests carry
Qtys == {0, 1, 2}
OrderQtys == {1, 2}

\* ---------------------------------------------------------------- values
Null == "null"
\* the timestamp of a column that was never written
NoTime == 0
\* the rows of the warehouses table, and the warehouse ids that a caller may send
Warehouses == {"w1", "w2"}
WarehouseInputs == Warehouses \cup {"w9"}
StockActions == {"add", "use", "adjust", "transfer"}
Statuses == {"pending", "needs_approval", "approved", "shipped", "delivered", "cancelled"}
CustomerNames == {"alice"}
Users == {"ops"}
OrderStatusInputs == {"pending", "shipped"}
StatusInputs == Statuses \cup {"bogus"}
GrnVals == {"a", "b"}
VendorNames == {Null, "v1", "v2"}
PoNos == {Null, "p1"}
Approvers == {"ops", "lead"}
NoteInputs == {Null, "n1"}

\* Sequences over S of length at most n.
SeqsUpTo(S, n) == UNION {[1..k -> S] : k \in 0..n}

\* A row of the products table; exists = FALSE stands for "no such row".
NoProduct == [exists |-> FALSE, stockTotal |-> 0, stockUsed |-> 0, stockAvailable |-> 0, isActive |-> FALSE]

\* The local state of one HTTP request; prior and moves remember the rows and the
\* length of the movement log that the request found.
NoReq == [kind |-> "none", pc |-> "idle", id |-> 0, action |-> Null, quantity |-> 0,
          fields |-> {}, stockTotal |-> 0, stockUsed |-> 0,
          items |-> <<>>, status |-> Null, customerName |-> Null,
          product |-> NoProduct, orderId |-> 0, idx |-> 0, needsApproval |-> FALSE,
          seen |-> <<>>, header |-> [vendorName |-> Null, poNo |-> Null], gitems |-> <<>>,
          existing |-> 0, grnId |-> 0, deleted |-> 0, requestedBy |-> Null, notes |-> Null, approvedBy |-> Null,
          customerEmail |-> Null, customerId |-> 0, warehouseId |-> Null,
          returned |-> Null, failed |-> Null, imported |-> 0, created |-> <<>>,
          prior |-> Null, moves |-> 0, res |-> 0]

VARIABLES products, movements, orders, orderItems, grns, grnItems, customers, warehouseStock, now, reqs

vars == <<products, movements, orders, orderItems, grns, grnItems, customers, warehouseStock, now, reqs>>

stockTables == <<products, movements>>
orderTables == <<orders, orderItems>>
grnTables == <<grns, grnItems>>

Running(r) == reqs[r].pc \notin {"idle", "done"}

Quiescent == \A r \in ReqIds : ~Running(r)

\* Requests run one after another: a new one starts only when none is in progress.
SeqFree(r) == r = 1 /\ Quiescent /\ Len(movements) < MaxMoves

\* ... and the orders table is not full
SeqFreeOrder(r) == SeqFree(r) /\ Len(orders) < MaxOrders

\* Requests interleave: every slot carries one request.
RaceFree(r) == reqs[r].kind = "none"

\* Requests interleave nowhere, each in a slot of its own: slot 1, then slot 2.
InOrder(r) == RaceFree(r) /\ Quiescent /\ \A s \in ReqIds : s < r => reqs[s].kind # "none"

Finish(r, code) == [reqs EXCEPT ![r].pc = "done", ![r].res = code]

\* ---------------------------------------------------------------- storage
\* faulty variant: a missing product reads as a blank row
getProduct_Blank(id) ==
  IF id \in ProductIds THEN [products[id] EXCEPT !.exists = TRUE] ELSE [NoProduct EXCEPT !.exists = TRUE]

\* db.select().from(products).where(eq(products.id, id)): undefined when no row matches
getProduct(id) == IF id \in ProductIds THEN products[id] ELSE NoProduct

FreeProductIds == {p \in ProductIds : ~products[p].exists}

\* createProduct: stockAvailable = insertProduct.stockTotal || 0, the rest as given.
createProductRow(insertProduct) ==
  [exists |-> TRUE,
   stockTotal |-> insertProduct.stockTotal,
   stockUsed |-> insertProduct.stockUsed,
   stockAvailable |-> insertProduct.stockTotal,
   isActive |-> TRUE]

\* updateProduct: SET only the fields that the partial record carries.
updateProductRow(row, fields, upd) ==
  [row EXCEPT !.stockTotal = IF "stockTotal" \in fields THEN upd.stockTotal ELSE @,
              !.stockUsed = IF "stockUsed" \in fields THEN upd.stockUsed ELSE @,
              !.stockAvailable = IF "stockAvailable" \in fields THEN upd.stockAvailable ELSE @]

updateProduct(id, fields, upd) ==
  IF id \in ProductIds /\ products[id].exists
  THEN [products EXCEPT ![id] = updateProductRow(products[id], fields, upd)]
  ELSE products

\* faulty variant: the insert replaces the newest record
createStockMovement_Overwrite(m) ==
  IF movements = <<>> THEN <<m>> ELSE [movements EXCEPT ![Len(movements)] = m]

\* db.insert(stockMovements).values(movement): the table has no update and no delete
createStockMovement(m) == Append(movements, m)

Movement(p, a, q, prev, new, o) ==
  [productId |-> p, action |-> a, quantity |-> q, previousStock |-> prev, newStock |-> new, orderId |-> o]

RECURSIVE Ordered(_, _)
\* the sum of the quantities that the order-item rows carry for product p
Ordered(rows, p) ==
  IF rows = <<>> THEN 0
  ELSE (IF Head(rows).productId = p THEN Head(rows).quantity ELSE 0) + Ordered(Tail(rows), p)

\* ---------------------------------------------------------------- POST /api/products
CreateProduct(r, total, used) ==
  /\ FreeProductIds # {}
  /\ LET id == CHOOSE p \in FreeProductIds : \A q \in FreeProductIds : p <= q
     IN /\ products' = [products EXCEPT ![id] = createProductRow([stockTotal |-> total, stockUsed |-> used])]
        /\ reqs' = [reqs EXCEPT ![r] = [NoReq EXCEPT !.kind = "createProduct", !.pc = "done", !.id = id,
                                                   !.stockTotal = total, !.stockUsed = used, !.res = 201]]
  /\ UNCHANGED <<now, customers, warehouseStock, movements, orderTables, grnTables>>

\* ---------------------------------------------------------------- PUT /api/products/:id
UpdateProduct(r, id, fields, total) ==
  /\ products' = updateProduct(id, fields, [stockTotal |-> total, stockUsed |-> 0, stockAvailable |-> 0])
  /\ reqs' = [reqs EXCEPT ![r] = [NoReq EXCEPT !.kind = "updateProduct", !.pc = "done", !.id = id,
                                             !.fields = fields, !.stockTotal = total,
                                             !.product = getProduct(id), !.moves = Len(movements),
                                             !.res = 200]]
  /\ UNCHANGED <<now, customers, warehouseStock, movements, orderTables, grnTables>>

\* ---------------------------------------------------------------- updateWarehouseStock (setQuantity)
\* the rows that the select ... where productId = and warehouseId = returns
existingRows(productId, warehouseId) ==
  {i \in DOMAIN warehouseStock : warehouseStock[i].productId = productId
                                 /\ warehouseStock[i].warehouseId = warehouseId}

\* warehouse_stock.product_id and .warehouse_id reference products.id and warehouses.id
foreignKeysHold(productId, warehouseId) == getProduct(productId).exists /\ warehouseId \in Warehouses

\* faulty variant: every call inserts a row
writeWarehouseStock_InsertAlways(productId, warehouseId, quantity, existing) ==
  Append(warehouseStock, [productId |-> productId, warehouseId |-> warehouseId, quantity |-> quantity])

\* if (existing.length > 0) update ... set quantity where the pair matches; else insert
writeWarehouseStock(productId, warehouseId, quantity, existing) ==
  IF existing > 0
  THEN [i \in DOMAIN warehouseStock |->
          IF i \in existingRows(productId, warehouseId)
          THEN [warehouseStock[i] EXCEPT !.quantity = quantity] ELSE warehouseStock[i]]
  ELSE Append(warehouseStock, [productId |-> productId, warehouseId |-> warehouseId, quantity |-> quantity])

\* the insert of a row whose product or warehouse does not exist throws
warehouseWriteThrows(productId, warehouseId, existing) ==
  existing = 0 /\ ~foreignKeysHold(productId, warehouseId)

\* const existing = await db.select().from(warehouseStock).where(...)
SetQuantityGet(r, productId, warehouseId, quantity) ==
  /\ reqs' = [reqs EXCEPT ![r] = [NoReq EXCEPT !.kind = "setQuantity", !.pc = "write", !.id = productId,
                                               !.warehouseId = warehouseId, !.quantity = quantity,
                                               !.existing = Cardinality(existingRows(productId, warehouseId)),
                                               !.prior = warehouseStock, !.moves = Len(movements)]]
  /\ UNCHANGED <<now, customers, warehouseStock, stockTables, orderTables, grnTables>>

\* await db.update(warehouseStock)... or await db.insert(warehouseStock)...
SetQuantityWrite(r) ==
  /\ reqs[r].kind = "setQuantity" /\ reqs[r].pc = "write"
  /\ LET q == reqs[r]
     IN IF warehouseWriteThrows(q.id, q.warehouseId, q.existing)
        THEN /\ warehouseStock' = warehouseStock
             /\ reqs' = Finish(r, 500)
        ELSE /\ warehouseStock' = writeWarehouseStock(q.id, q.warehouseId, q.quantity, q.existing)
             /\ reqs' = Finish(r, 200)
  /\ UNCHANGED <<now, customers, stockTables, orderTables, grnTables>>

\* ---------------------------------------------------------------- POST /api/products/import-csv
\* a data row of the CSV: valid = insertProductSchema.parse and createProduct both
\* return (no bad price, no duplicate sku); stockTotal = parseInt(stock) || 0
ImportRows == [valid : BOOLEAN, stockTotal : 0..1]

\* where the row loop goes after row idx: the next row, or res.json({imported, products})
afterRow(q) ==
  IF q.idx < Len(q.items) THEN [q EXCEPT !.pc = "create", !.idx = q.idx + 1]
  ELSE [q EXCEPT !.pc = "done", !.res = 200]

\* created.push(createdProduct); imported++
pushCreated(q) == [q EXCEPT !.created = Append(q.created, q.id), !.imported = q.imported + 1]

\* const rows = parseCSV(csv); if (rows.length === 0) return res.json({imported: 0})
ImportStart(r, rows, warehouseId) ==
  /\ Cardinality({i \in DOMAIN rows : rows[i].valid}) <= Cardinality(FreeProductIds)
  /\ LET req == [NoReq EXCEPT !.kind = "import", !.items = rows, !.warehouseId = warehouseId,
                              !.prior = products, !.moves = Len(movements)]
     IN reqs' = [reqs EXCEPT ![r] = IF Len(rows) > 0
                                    THEN [req EXCEPT !.pc = "create", !.idx = 1]
                                    ELSE [req EXCEPT !.pc = "done", !.res = 200]]
  /\ UNCHANGED <<now, customers, warehouseStock, stockTables, orderTables, grnTables>>

\* try { validated = insertProductSchema.parse(...); createdProduct = await storage.createProduct(validated);
\* if (typeof warehouseId === "string" && warehouseId && createdProduct.stockTotal > 0) ...
\* } catch (e) { continue; }
ImportCreate(r) ==
  /\ reqs[r].kind = "import" /\ reqs[r].pc = "create"
  /\ LET q == reqs[r]
         row == q.items[q.idx]
         id == CHOOSE p \in FreeProductIds : \A o \in FreeProductIds : p <= o
     IN IF ~row.valid
        THEN /\ products' = products
             /\ reqs' = [reqs EXCEPT ![r] = afterRow(q)]
        ELSE /\ products' = [products EXCEPT ![id] = createProductRow([stockTotal |-> row.stockTotal, stockUsed |-> 0])]
             /\ reqs' = [reqs EXCEPT ![r] =
                           IF q.warehouseId # Null /\ row.stockTotal > 0
                           THEN [q EXCEPT !.pc = "select", !.id = id]
                           ELSE afterRow(pushCreated([q EXCEPT !.id = id]))]
  /\ UNCHANGED <<now, customers, warehouseStock, movements, orderTables, grnTables>>

\* await storage.updateWarehouseStock(createdProduct.id, warehouseId, createdProduct.stockTotal): the select
ImportSelect(r) ==
  /\ reqs[r].kind = "import" /\ reqs[r].pc = "select"
  /\ reqs' = [reqs EXCEPT ![r].pc = "write",
                          ![r].existing = Cardinality(existingRows(reqs[r].id, reqs[r].warehouseId))]
  /\ UNCHANGED <<now, customers, warehouseStock, stockTables, orderTables, grnTables>>

\* ... the update or insert; when it throws, the catch skips created.push and imported++
ImportWrite(r) ==
  /\ reqs[r].kind = "import" /\ reqs[r].pc = "write"
  /\ LET q == reqs[r]
     IN IF warehouseWriteThrows(q.id, q.warehouseId, q.existing)
        THEN /\ warehouseStock' = warehouseStock
             /\ reqs' = [reqs EXCEPT ![r] = afterRow(q)]
        ELSE /\ warehouseStock' = writeWarehouseStock(q.id, q.warehouseId, q.items[q.idx].stockTotal, q.existing)
             /\ reqs' = [reqs EXCEPT ![r] = afterRow(pushCreated(q))]
  /\ UNCHANGED <<now, customers, stockTables, orderTables, grnTables>>

\* ---------------------------------------------------------------- DELETE /api/products/:id
DeleteProduct(r, id) ==
  /\ products' = IF products[id].exists THEN [products EXCEPT ![id].isActive = FALSE] ELSE products
  /\ reqs' = [reqs EXCEPT ![r] = [NoReq EXCEPT !.kind = "deleteProduct", !.pc = "done", !.id = id, !.res = 204]]
  /\ UNCHANGED <<now, customers, warehouseStock, movements, orderTables, grnTables>>

\* ---------------------------------------------------------------- POST /api/products/:id/stock
\* faulty variant: adjust adds the quantity to the total instead of replacing it
newStockTotal_AdjustAdds(product, action, quantity) ==
  IF action = "add" \/ action = "adjust" THEN product.stockTotal + quantity
  ELSE product.stockTotal

newStockTotal(product, action, quantity) ==
  IF action = "add" THEN product.stockTotal + quantity
  ELSE IF action = "adjust" THEN quantity
  ELSE product.stockTotal

newStockUsed(product, action, quantity) ==
  IF action = "use" THEN product.stockUsed + quantity ELSE product.stockUsed

\* faulty variant: use raises stockUsed and leaves stockAvailable alone
newStockAvailable_NoUse(product, action, quantity) ==
  IF action = "add" THEN product.stockAvailable + quantity
  ELSE IF action = "adjust" THEN newStockTotal(product, action, quantity) - newStockUsed(product, action, quantity)
  ELSE product.stockAvailable

\* faulty variant: adjust forgets to recompute stockAvailable
newStockAvailable_Stale(product, action, quantity) ==
  IF action = "add" THEN product.stockAvailable + quantity
  ELSE IF action = "use" THEN product.stockAvailable - quantity
  ELSE product.stockAvailable

newStockAvailable(product, action, quantity) ==
  IF action = "add" THEN product.stockAvailable + quantity
  ELSE IF action = "use" THEN product.stockAvailable - quantity
  ELSE IF action = "adjust" THEN newStockTotal(product, action, quantity) - newStockUsed(product, action, quantity)
  ELSE product.stockAvailable

\* const product = await storage.getProduct(req.params.id); 404 when missing
SetStockAt(r, id, action, quantity, warehouseId) ==
  /\ LET product == getProduct(id)
         req == [NoReq EXCEPT !.kind = "setStock", !.id = id, !.action = action,
                              !.quantity = quantity, !.warehouseId = warehouseId,
                              !.product = product, !.moves = Len(movements)]
     IN reqs' = [reqs EXCEPT ![r] = IF product.exists
                                    THEN [req EXCEPT !.pc = "update"]
                                    ELSE [req EXCEPT !.pc = "done", !.res = 404]]
  /\ UNCHANGED <<now, customers, warehouseStock, stockTables, orderTables, grnTables>>

\* ... with a body that names no warehouse
SetStockGet(r, id, action, quantity) == SetStockAt(r, id, action, quantity, Null)

\* faulty variant: setStock also writes the new total into the warehouse's row
SetStockUpdate_Warehouse(r) ==
  /\ reqs[r].kind = "setStock" /\ reqs[r].pc = "update"
  /\ LET q == reqs[r]
     IN /\ products' = updateProduct(q.id, {"stockTotal", "stockUsed", "stockAvailable"},
                                     [stockTotal |-> newStockTotal(q.product, q.action, q.quantity),
                                      stockUsed |-> newStockUsed(q.product, q.action, q.quantity),
                                      stockAvailable |-> newStockAvailable(q.product, q.action, q.quantity)])
        /\ warehouseStock' = IF q.warehouseId \in Warehouses
                             THEN writeWarehouseStock(q.id, q.warehouseId,
                                                      newStockTotal(q.product, q.action, q.quantity),
                                                      Cardinality(existingRows(q.id, q.warehouseId)))
                             ELSE warehouseStock
  /\ reqs' = [reqs EXCEPT ![r].pc = "movement"]
  /\ UNCHANGED <<now, customers, movements, orderTables, grnTables>>

\* await storage.updateProduct(id, {stockTotal, stockUsed, stockAvailable})
SetStockUpdate(r) ==
  /\ reqs[r].kind = "setStock" /\ reqs[r].pc = "update"
  /\ LET q == reqs[r]
     IN products' = updateProduct(q.id, {"stockTotal", "stockUsed", "stockAvailable"},
                                  [stockTotal |-> newStockTotal(q.product, q.action, q.quantity),
                                   stockUsed |-> newStockUsed(q.product, q.action, q.quantity),
                                   stockAvailable |-> newStockAvailable(q.product, q.action, q.quantity)])
  /\ reqs' = [reqs EXCEPT ![r].pc = "movement"]
  /\ UNCHANGED <<now, customers, warehouseStock, movements, orderTables, grnTables>>

\* await storage.createStockMovement({..., warehouseId, ...}); res.json({success: true})
\* (stock_movements.warehouse_id references warehouses.id: an unknown id makes the
\* insert throw, 500)
SetStockMovement(r) ==
  /\ reqs[r].kind = "setStock" /\ reqs[r].pc = "movement"
  /\ LET q == reqs[r]
     IN IF q.warehouseId \in Warehouses \cup {Null}
        THEN /\ movements' = createStockMovement(
                               Movement(q.id, q.action,
                                        IF q.action = "use" THEN -q.quantity ELSE q.quantity,
                                        q.product.stockAvailable,
                                        newStockAvailable(q.product, q.action, q.quantity), 0))
             /\ reqs' = Finish(r, 200)
        ELSE /\ movements' = movements
             /\ reqs' = Finish(r, 500)
  /\ UNCHANGED <<now, customers, warehouseStock, products, orderTables, grnTables>>

\* ---------------------------------------------------------------- POST /api/orders
OrderIds == 1..Len(orders)

ItemLists == SeqsUpTo([productId : ProductIds, quantity : OrderQtys], MaxItems)

\* ... also naming a product id that no row ever has
AnyItemLists == SeqsUpTo([productId : ProductIds \cup {0}, quantity : OrderQtys], MaxItems)

\* the orders of one line, as the races on one product need them
SingleItemLists == {<<i>> : i \in [productId : ProductIds, quantity : OrderQtys]}

\* faulty variant: an order for exactly the available stock counts as oversold
oversold_Inclusive(product, item) == product.stockAvailable <= item.quantity

\* if ((product.stockAvailable ?? 0) < item.quantity) needsApproval = true
oversold(product, item) == product.stockAvailable < item.quantity

\* a fresh row of the orders table: orderNumber = `ORD-${Date.now()}`, createdAt and
\* updatedAt default to now()
orderRow(status, customerName) ==
  [status |-> status, approvalStatus |-> Null, approvalRequestedAt |-> NoTime,
   approvalRequestedBy |-> Null, approvalNotes |-> Null, approvedAt |-> NoTime,
   approvedBy |-> Null, customerName |-> customerName, customerEmail |-> Null,
   customerId |-> 0, orderNumber |-> now, createdAt |-> now, updatedAt |-> now]

\* orders.order_number is unique: an order stamped in this millisecond is stored already
orderNumberTaken == \E o \in OrderIds : orders[o].orderNumber = now

\* the row written when needsApproval is set
flagNeedsApproval(row, customerName) ==
  [row EXCEPT !.status = "needs_approval", !.approvalStatus = "needs_approval",
              !.approvalRequestedAt = now,
              !.approvalRequestedBy = IF customerName # "" THEN customerName ELSE "system",
              !.updatedAt = now]

\* const [order] = await db.insert(orders).values({...insertOrder, orderNumber}).returning()
\* (a duplicate order number makes the insert throw: no row, 500)
CreateOrderInsert(r, status, customerName, items) ==
  /\ LET req == [NoReq EXCEPT !.kind = "createOrder", !.status = status, !.customerName = customerName,
                              !.items = items, !.moves = Len(movements), !.prior = products]
         placed == [req EXCEPT !.orderId = Len(orders) + 1, !.returned = orderRow(status, customerName)]
     IN IF orderNumberTaken
        THEN /\ orders' = orders
             /\ reqs' = [reqs EXCEPT ![r] = [req EXCEPT !.pc = "done", !.res = 500]]
        ELSE /\ orders' = Append(orders, orderRow(status, customerName))
             /\ reqs' = [reqs EXCEPT ![r] = IF Len(items) > 0
                                            THEN [placed EXCEPT !.pc = "items"]
                                            ELSE [placed EXCEPT !.pc = "done", !.res = 201]]
  /\ UNCHANGED <<now, customers, warehouseStock, stockTables, orderItems, grnTables>>

\* await db.insert(orderItems).values(...): order_items.product_id references products.id
CreateOrderItems(r) ==
  /\ reqs[r].kind = "createOrder" /\ reqs[r].pc = "items"
  /\ LET q == reqs[r]
     IN IF \A i \in 1..Len(q.items) : getProduct(q.items[i].productId).exists
        THEN /\ orderItems' = orderItems \o [i \in 1..Len(q.items) |->
                                [orderId |-> q.orderId, productId |-> q.items[i].productId,
                                 quantity |-> q.items[i].quantity]]
             /\ reqs' = [reqs EXCEPT ![r].pc = "get", ![r].idx = 1]
        ELSE /\ orderItems' = orderItems
             /\ reqs' = Finish(r, 500)
  /\ UNCHANGED <<now, customers, warehouseStock, stockTables, orders, grnTables>>

\* faulty variant: the approval update runs whether or not an item oversold
afterItem_AlwaysFlag(q) ==
  IF q.idx < Len(q.items) THEN [q EXCEPT !.pc = "get", !.idx = q.idx + 1]
  ELSE [q EXCEPT !.pc = "flag"]

\* where the loop goes after item idx: the next item, the approval update, or the return
afterItem(q) ==
  IF q.idx < Len(q.items) THEN [q EXCEPT !.pc = "get", !.idx = q.idx + 1]
  ELSE IF q.needsApproval THEN [q EXCEPT !.pc = "flag"]
  ELSE [q EXCEPT !.pc = "done", !.res = 201]

\* const product = await this.getProduct(item.productId); the oversell test
CreateOrderGet(r) ==
  /\ reqs[r].kind = "createOrder" /\ reqs[r].pc = "get"
  /\ LET q == reqs[r]
         item == q.items[q.idx]
         product == getProduct(item.productId)
     IN reqs' = [reqs EXCEPT ![r] =
                   IF product.exists
                   THEN [q EXCEPT !.pc = "update", !.product = product,
                                  !.seen = Append(q.seen, product),
                                  !.needsApproval = q.needsApproval \/ oversold(product, item)]
                   ELSE afterItem([q EXCEPT !.seen = Append(q.seen, product)])]
  /\ UNCHANGED <<now, customers, warehouseStock, stockTables, orderTables, grnTables>>

orderStockUsed(product, item) == product.stockUsed + item.quantity

orderStockAvailable(product, item) == product.stockTotal - orderStockUsed(product, item)

\* await this.updateProduct(item.productId, {stockUsed, stockAvailable})
CreateOrderUpdate(r) ==
  /\ reqs[r].kind = "createOrder" /\ reqs[r].pc = "update"
  /\ LET q == reqs[r]
         item == q.items[q.idx]
     IN products' = updateProduct(item.productId, {"stockUsed", "stockAvailable"},
                                  [stockTotal |-> 0,
                                   stockUsed |-> orderStockUsed(q.product, item),
                                   stockAvailable |-> orderStockAvailable(q.product, item)])
  /\ reqs' = [reqs EXCEPT ![r].pc = "movement"]
  /\ UNCHANGED <<now, customers, warehouseStock, movements, orderTables, grnTables>>

\* await this.createStockMovement({action: "use", quantity: -item.quantity, ...})
CreateOrderMovement(r) ==
  /\ reqs[r].kind = "createOrder" /\ reqs[r].pc = "movement"
  /\ LET q == reqs[r]
         item == q.items[q.idx]
     IN /\ movements' = createStockMovement(
                          Movement(item.productId, "use", -item.quantity, q.product.stockAvailable,
                                   orderStockAvailable(q.product, item), q.orderId))
        /\ reqs' = [reqs EXCEPT ![r] = afterItem(q)]
  /\ UNCHANGED <<now, customers, warehouseStock, products, orderTables, grnTables>>

\* faulty variant: a failure in the loop still runs the approval update
CreateOrderFail_Flag(r) ==
  /\ reqs[r].kind = "createOrder" /\ reqs[r].pc \in {"get", "update", "movement"}
  /\ reqs' = [reqs EXCEPT ![r].pc = "done", ![r].res = 500, ![r].failed = reqs[r].pc]
  /\ orders' = IF reqs[r].needsApproval
               THEN [orders EXCEPT ![reqs[r].orderId] = flagNeedsApproval(@, reqs[r].customerName)]
               ELSE orders
  /\ UNCHANGED <<now, customers, warehouseStock, stockTables, orderItems, grnTables>>

\* an awaited storage call of the per-item loop rejects: createOrder has no try/catch
\* and no transaction, the error reaches the route's catch (500) with nothing undone
CreateOrderFail(r) ==
  /\ reqs[r].kind = "createOrder" /\ reqs[r].pc \in {"get", "update", "movement"}
  /\ reqs' = [reqs EXCEPT ![r].pc = "done", ![r].res = 500, ![r].failed = reqs[r].pc]
  /\ UNCHANGED <<now, customers, warehouseStock, stockTables, orderTables, grnTables>>

\* ---------------------------------------------------------------- POST /api/orders: the route
\* req.body.order: customerName is a required column, customerEmail an optional one
OrderRecords == [customerName : CustomerNames \cup {Null}, customerEmail : {Null, "a@x"}, status : {"pending"}]

\* req.body.items: unitPrice is a required column
RawItemLists == SeqsUpTo([productId : ProductIds, quantity : {1}, unitPrice : {Null, "9"}], MaxItems)

\* insertOrderSchema.parse(orderData)
validOrder(order) == order.customerName # Null

\* insertOrderItemSchema.parse(item)
validItem(item) == item.unitPrice # Null

\* faulty variant: the items are passed on unvalidated
orderAccepted_OrderOnly(order, items) == validOrder(order)

\* both parse calls return, no ZodError is thrown
orderAccepted(order, items) == validOrder(order) /\ \A i \in 1..Len(items) : validItem(items[i])

\* validation, before any storage call; a ZodError is answered 400
PostOrder(r, order, items) ==
  /\ LET req == [NoReq EXCEPT !.kind = "createOrder", !.status = order.status,
                              !.customerName = order.customerName, !.customerEmail = order.customerEmail,
                              !.items = items, !.moves = Len(movements)]
     IN reqs' = [reqs EXCEPT ![r] =
                   IF ~orderAccepted(order, items) THEN [req EXCEPT !.pc = "done", !.res = 400]
                   ELSE IF order.customerEmail # Null THEN [req EXCEPT !.pc = "customers"]
                   ELSE [req EXCEPT !.pc = "insert"]]
  /\ UNCHANGED <<now, customers, warehouseStock, stockTables, orderTables, grnTables>>

\* faulty variant: the lookup never matches
CustomersWith_None(email) == {}

\* the customers with this e-mail address, in table order
CustomersWith(email) == {c \in 1..Len(customers) : customers[c].email = email}

\* const customers = await storage.getCustomers(); customers.find(c => c.email === ...);
\* if (!customer && orderData.customerName): an empty name creates no customer
PostOrderCustomers(r) ==
  /\ reqs[r].kind = "createOrder" /\ reqs[r].pc = "customers"
  /\ LET q == reqs[r]
         found == CustomersWith(q.customerEmail)
     IN reqs' = [reqs EXCEPT ![r] =
                   IF found # {}
                   THEN [q EXCEPT !.pc = "insert",
                                  !.customerId = CHOOSE c \in found : \A d \in found : c <= d]
                   ELSE IF q.customerName # ""
                   THEN [q EXCEPT !.pc = "customer_create"]
                   ELSE [q EXCEPT !.pc = "insert"]]
  /\ UNCHANGED <<now, customers, warehouseStock, stockTables, orderTables, grnTables>>

\* customer = await storage.createCustomer({name, email, phone})
PostOrderCreateCustomer(r) ==
  /\ reqs[r].kind = "createOrder" /\ reqs[r].pc = "customer_create"
  /\ customers' = Append(customers, [name |-> reqs[r].customerName, email |-> reqs[r].customerEmail])
  /\ reqs' = [reqs EXCEPT ![r].pc = "insert", ![r].customerId = Len(customers) + 1]
  /\ UNCHANGED <<now, warehouseStock, stockTables, orderTables, grnTables>>

\* storage.createOrder({...validatedOrder, customerId: customer?.id}, validatedItems): the insert
PostOrderInsert(r) ==
  /\ reqs[r].kind = "createOrder" /\ reqs[r].pc = "insert"
  /\ LET q == reqs[r]
         row == [orderRow(q.status, q.customerName) EXCEPT !.customerId = q.customerId,
                                                           !.customerEmail = q.customerEmail]
         placed == [q EXCEPT !.orderId = Len(orders) + 1, !.returned = row, !.prior = products]
     IN IF orderNumberTaken
        THEN /\ orders' = orders
             /\ reqs' = Finish(r, 500)
        ELSE /\ orders' = Append(orders, row)
             /\ reqs' = [reqs EXCEPT ![r] = IF Len(q.items) > 0
                                            THEN [placed EXCEPT !.pc = "items"]
                                            ELSE [placed EXCEPT !.pc = "done", !.res = 201]]
  /\ UNCHANGED <<now, customers, warehouseStock, stockTables, orderItems, grnTables>>

\* if (needsApproval) await db.update(orders).set({status: "needs_approval", ...})
CreateOrderFlag(r) ==
  /\ reqs[r].kind = "createOrder" /\ reqs[r].pc = "flag"
  /\ orders' = [orders EXCEPT ![reqs[r].orderId] = flagNeedsApproval(@, reqs[r].customerName)]
  /\ reqs' = Finish(r, 201)
  /\ UNCHANGED <<now, customers, warehouseStock, stockTables, orderItems, grnTables>>

\* ---------------------------------------------------------------- PUT /api/orders/:id/status
\* db.update(orders).set({status, updatedAt}).where(eq(orders.id, id)): no row, no change
updateOrderStatus(id, status) ==
  IF id \in OrderIds THEN [orders EXCEPT ![id].status = status, ![id].updatedAt = now] ELSE orders

\* faulty variant: cancelling an order returns its quantities to stock
UpdateOrderStatus_Restock(r, id, status) ==
  /\ orders' = updateOrderStatus(id, status)
  /\ products' = IF status = "cancelled"
                 THEN [p \in ProductIds |->
                         LET back == Ordered(SelectSeq(orderItems, LAMBDA it : it.orderId = id), p)
                         IN [products[p] EXCEPT !.stockUsed = @ - back, !.stockAvailable = @ + back]]
                 ELSE products
  /\ reqs' = [reqs EXCEPT ![r] = [NoReq EXCEPT !.kind = "updateOrderStatus", !.pc = "done", !.id = id,
                                             !.status = status, !.res = 200]]
  /\ UNCHANGED <<now, customers, warehouseStock, movements, orderItems, grnTables>>

UpdateOrderStatus(r, id, status) ==
  /\ orders' = updateOrderStatus(id, status)
  /\ reqs' = [reqs EXCEPT ![r] = [NoReq EXCEPT !.kind = "updateOrderStatus", !.pc = "done", !.id = id,
                                             !.status = status, !.res = 200]]
  /\ UNCHANGED <<now, customers, warehouseStock, stockTables, orderItems, grnTables>>

\* ---------------------------------------------------------------- POST /api/orders/:id/approve
\* faulty variant: an order that is already approved keeps its first approval
approveOrder_KeepFirst(id, approvedBy, notes) ==
  IF id \in OrderIds /\ orders[id].approvalStatus # "approved"
  THEN [orders EXCEPT ![id].status = "approved", ![id].approvalStatus = "approved",
                      ![id].approvedAt = now, ![id].approvedBy = approvedBy,
                      ![id].approvalNotes = notes, ![id].updatedAt = now]
  ELSE orders

approveOrder(id, approvedBy, notes) ==
  IF id \in OrderIds
  THEN [orders EXCEPT ![id].status = "approved", ![id].approvalStatus = "approved",
                      ![id].approvedAt = now, ![id].approvedBy = approvedBy,
                      ![id].approvalNotes = notes, ![id].updatedAt = now]
  ELSE orders

ApproveOrder(r, id, approvedBy, notes) ==
  /\ orders' = approveOrder(id, approvedBy, notes)
  /\ reqs' = [reqs EXCEPT ![r] = [NoReq EXCEPT !.kind = "approveOrder", !.pc = "done", !.id = id,
                                             !.approvedBy = approvedBy, !.notes = notes,
                                             !.prior = IF id \in OrderIds THEN orders[id] ELSE Null,
                                             !.res = 200]]
  /\ UNCHANGED <<now, customers, warehouseStock, stockTables, orderItems, grnTables>>

\* ---------------------------------------------------------------- POST /api/orders/:id/request-approval
Headers == [vendorName : VendorNames, poNo : PoNos]

GrnItemLists == SeqsUpTo(GrnVals, MaxGrnItems)

\* const hasGrn = grn && Object.keys(grn).length > 0
hasGrn(header) == header.vendorName # Null \/ header.poNo # Null

\* const hasItems = Array.isArray(items) && items.length > 0
hasItems(gitems) == Len(gitems) > 0

\* the order update shared by requestApproval and upsertOrderApprovalWithGrn
requestApproval(id, requestedBy, notes) ==
  IF id \in OrderIds
  THEN [orders EXCEPT ![id].status = "needs_approval", ![id].approvalStatus = "needs_approval",
                      ![id].approvalRequestedAt = now, ![id].approvalRequestedBy = requestedBy,
                      ![id].approvalNotes = notes, ![id].updatedAt = now]
  ELSE orders

\* the GRN rows of an order: db.select().from(grns).where(eq(grns.orderId, orderId))
GrnsOf(orderId) == {g \in 1..Len(grns) : grns[g].orderId = orderId}

\* the item values of a GRN, in insertion order
RECURSIVE ItemsOf(_, _)
ItemsOf(rows, grnId) ==
  IF rows = <<>> THEN <<>>
  ELSE IF Head(rows).grnId = grnId THEN <<Head(rows).val>> \o ItemsOf(Tail(rows), grnId)
  ELSE ItemsOf(Tail(rows), grnId)

\* db.update(grns).set({...header}): only the fields the header carries
updateGrnHeader(row, header) ==
  [row EXCEPT !.vendorName = IF header.vendorName # Null THEN header.vendorName ELSE @,
              !.poNo = IF header.poNo # Null THEN header.poNo ELSE @]

\* faulty variant: the items of the previous submission are kept
deleteGrnItems_Keep(rows, grnId) == rows

\* db.delete(grnItems).where(eq(grnItems.grnId, grnRow.id))
deleteGrnItems(rows, grnId) ==
  LET kept(row) == row.grnId # grnId
  IN SelectSeq(rows, kept)

\* after the GRN row is written: insert the items when there are any, else update the order
afterGrn(q) == IF hasItems(q.gitems) THEN [q EXCEPT !.pc = "grn_items"] ELSE [q EXCEPT !.pc = "grn_order"]

\* the route up to its first storage call: requestApproval when the body has neither
\* GRN fields nor items, else the lookup of the order's GRN
RequestApprovalStart(r, id, header, gitems, requestedBy, notes) ==
  LET req == [NoReq EXCEPT !.kind = "requestApproval", !.id = id, !.header = header, !.gitems = gitems,
                           !.requestedBy = requestedBy, !.notes = notes, !.prior = grnTables]
  IN IF ~hasGrn(header) /\ ~hasItems(gitems)
     THEN /\ orders' = requestApproval(id, requestedBy, notes)
          /\ reqs' = [reqs EXCEPT ![r] = [req EXCEPT !.pc = "done", !.res = 200]]
          /\ UNCHANGED <<now, customers, warehouseStock, stockTables, orderItems, grnTables>>
     ELSE /\ \E e \in (IF GrnsOf(id) = {} THEN {0} ELSE GrnsOf(id)) :
               reqs' = [reqs EXCEPT ![r] = [req EXCEPT !.kind = "submitApprovalWithGrn", !.existing = e,
                                                      !.pc = IF e # 0 THEN "grn_update" ELSE "grn_insert"]]
          /\ UNCHANGED <<now, customers, warehouseStock, stockTables, orderTables, grnTables>>

\* existing[0]: db.update(grns).set({...header}).where(eq(grns.id, existing[0].id))
UpsertUpdate(r) ==
  /\ reqs[r].kind = "submitApprovalWithGrn" /\ reqs[r].pc = "grn_update"
  /\ LET q == reqs[r]
     IN IF hasGrn(q.header)
        THEN /\ grns' = [grns EXCEPT ![q.existing] = updateGrnHeader(@, q.header)]
             /\ reqs' = [reqs EXCEPT ![r].pc = "grn_delete", ![r].grnId = q.existing]
        ELSE \* set({}) carries no column: the query builder throws, the route answers 500
             /\ grns' = grns
             /\ reqs' = Finish(r, 500)
  /\ UNCHANGED <<now, customers, warehouseStock, stockTables, orderTables, grnItems>>

UpsertDelete(r) ==
  /\ reqs[r].kind = "submitApprovalWithGrn" /\ reqs[r].pc = "grn_delete"
  /\ LET q == reqs[r]
     IN /\ grnItems' = deleteGrnItems(grnItems, q.grnId)
        /\ reqs' = [reqs EXCEPT ![r] = afterGrn([q EXCEPT !.deleted = Len(ItemsOf(grnItems, q.grnId))])]
  /\ UNCHANGED <<now, customers, warehouseStock, stockTables, orderTables, grns>>

\* The grns table carries no unique constraint on order_id: one GRN per order is
\* enforced by the upsert alone.
grnOrderIdUnique == FALSE

\* Whether grns.order_id references orders.id is not known: a row for an order
\* id that no order has is either rejected by the database or stored.
grnOrderIdReferences == {TRUE, FALSE}

\* no existing row: db.insert(grns).values({...header, orderId})
UpsertInsert(r) ==
  /\ reqs[r].kind = "submitApprovalWithGrn" /\ reqs[r].pc = "grn_insert"
  /\ LET q == reqs[r]
     IN IF grnOrderIdUnique /\ GrnsOf(q.id) # {}
        THEN /\ grns' = grns
             /\ reqs' = Finish(r, 500)
        ELSE \/ /\ q.id \in OrderIds \/ FALSE \in grnOrderIdReferences
                /\ grns' = Append(grns, [orderId |-> q.id, vendorName |-> q.header.vendorName,
                                         poNo |-> q.header.poNo])
                /\ reqs' = [reqs EXCEPT ![r] = afterGrn([q EXCEPT !.grnId = Len(grns) + 1])]
             \/ /\ q.id \notin OrderIds /\ TRUE \in grnOrderIdReferences
                /\ grns' = grns
                /\ reqs' = Finish(r, 500)
  /\ UNCHANGED <<now, customers, warehouseStock, stockTables, orderTables, grnItems>>

\* db.insert(grnItems).values(items.map(it => ({...it, grnId: grnRow.id})))
UpsertInsertItems(r) ==
  /\ reqs[r].kind = "submitApprovalWithGrn" /\ reqs[r].pc = "grn_items"
  /\ LET q == reqs[r]
     IN grnItems' = grnItems \o [i \in 1..Len(q.gitems) |-> [grnId |-> q.grnId, val |-> q.gitems[i]]]
  /\ reqs' = [reqs EXCEPT ![r].pc = "grn_order"]
  /\ UNCHANGED <<now, customers, warehouseStock, stockTables, orderTables, grns>>

\* db.update(orders).set({status: "needs_approval", ...}); return {grn: grnRow}
UpsertOrder(r) ==
  /\ reqs[r].kind = "submitApprovalWithGrn" /\ reqs[r].pc = "grn_order"
  /\ orders' = requestApproval(reqs[r].id, reqs[r].requestedBy, reqs[r].notes)
  /\ reqs' = Finish(r, 200)
  /\ UNCHANGED <<now, customers, warehouseStock, stockTables, orderItems, grnTables>>

\* ---------------------------------------------------------------- the clock
\* new Date() / now(): time passes between requests and between their storage calls
Tick ==
  /\ now < MaxClock
  /\ now' = now + 1
  /\ UNCHANGED <<customers, warehouseStock, stockTables, orderTables, grnTables, reqs>>

\* Requests that follow one another: the clock moves on once an order was placed.
Elapse == Quiescent /\ orderNumberTaken /\ Tick

\* ---------------------------------------------------------------- specification: Product Ledger
Init ==
  /\ products = [p \in ProductIds |-> NoProduct]
  /\ movements = <<>>
  /\ orders = <<>>
  /\ orderItems = <<>>
  /\ grns = <<>>
  /\ grnItems = <<>>
  /\ customers = <<>>
  /\ warehouseStock = <<>>
  /\ now = 1
  /\ reqs = [r \in ReqIds |-> NoReq]

NextLedger ==
  \/ \E r \in ReqIds, total \in Qtys : SeqFree(r) /\ CreateProduct(r, total, 0)
  \/ \E r \in ReqIds, id \in ProductIds \cup {0}, a \in StockActions \ {"transfer"}, q \in Qtys :
       SeqFree(r) /\ SetStockGet(r, id, a, q)
  \/ \E r \in ReqIds : SetStockUpdate(r)
  \/ \E r \in ReqIds : SetStockMovement(r)

SpecLedger == Init /\ [][NextLedger]_vars

\* ---------------------------------------------------------------- specification: sequential requests
NextSeq ==
  \/ \E r \in ReqIds, total \in Qtys, used \in 0..1 : SeqFree(r) /\ CreateProduct(r, total, used)
  \/ \E r \in ReqIds, id \in ProductIds, fields \in {{"stockTotal"}}, total \in Qtys :
       SeqFree(r) /\ UpdateProduct(r, id, fields, total)
  \/ \E r \in ReqIds, id \in ProductIds : SeqFree(r) /\ DeleteProduct(r, id)
  \/ \E r \in ReqIds, id \in ProductIds, a \in StockActions, q \in Qtys :
       SeqFree(r) /\ SetStockGet(r, id, a, q)
  \/ \E r \in ReqIds : SetStockUpdate(r)
  \/ \E r \in ReqIds : SetStockMovement(r)
  \/ \E r \in ReqIds, st \in OrderStatusInputs, c \in CustomerNames, items \in ItemLists :
       SeqFreeOrder(r) /\ CreateOrderInsert(r, st, c, items)
  \/ \E r \in ReqIds : CreateOrderItems(r)
  \/ \E r \in ReqIds : CreateOrderGet(r)
  \/ \E r \in ReqIds : CreateOrderUpdate(r)
  \/ \E r \in ReqIds : CreateOrderMovement(r)
  \/ \E r \in ReqIds : CreateOrderFlag(r)

SpecSeq == Init /\ [][NextSeq]_vars

\* ---------------------------------------------------------------- specification: order placement
NextPlace ==
  \/ \E r \in ReqIds, total \in Qtys, used \in 0..1 : SeqFree(r) /\ CreateProduct(r, total, used)
  \/ \E r \in ReqIds, st \in OrderStatusInputs, c \in CustomerNames, items \in ItemLists :
       SeqFreeOrder(r) /\ CreateOrderInsert(r, st, c, items)
  \/ \E r \in ReqIds : CreateOrderItems(r)
  \/ \E r \in ReqIds : CreateOrderGet(r)
  \/ \E r \in ReqIds : CreateOrderUpdate(r)
  \/ \E r \in ReqIds : CreateOrderMovement(r)
  \/ \E r \in ReqIds : CreateOrderFlag(r)
  \/ Elapse

SpecPlace == Init /\ [][NextPlace]_vars

\* ---------------------------------------------------------------- specification: racing order placements
\* The tables after the products were created (stockUsed = 0), no request started yet.
InitStocked ==
  /\ \E total \in [ProductIds -> Qtys] :
       products = [p \in ProductIds |-> createProductRow([stockTotal |-> total[p], stockUsed |-> 0])]
  /\ movements = <<>>
  /\ orders = <<>>
  /\ orderItems = <<>>
  /\ grns = <<>>
  /\ grnItems = <<>>
  /\ customers = <<>>
  /\ warehouseStock = <<>>
  /\ now = 1
  /\ reqs = [r \in ReqIds |-> NoReq]

NextOrderRace ==
  \/ \E r \in ReqIds, c \in CustomerNames, items \in SingleItemLists :
       RaceFree(r) /\ CreateOrderInsert(r, "pending", c, items)
  \/ \E r \in ReqIds : CreateOrderItems(r)
  \/ \E r \in ReqIds : CreateOrderGet(r)
  \/ \E r \in ReqIds : CreateOrderUpdate(r)
  \/ \E r \in ReqIds : CreateOrderMovement(r)
  \/ \E r \in ReqIds : CreateOrderFlag(r)
  \/ Tick

SpecOrderRace == InitStocked /\ [][NextOrderRace]_vars

\* ---------------------------------------------------------------- specification: setStock racing createOrder
NextMixedRace ==
  \/ \E r \in ReqIds, id \in ProductIds, a \in StockActions, q \in Qtys :
       RaceFree(r) /\ SetStockGet(r, id, a, q)
  \/ \E r \in ReqIds : SetStockUpdate(r)
  \/ \E r \in ReqIds : SetStockMovement(r)
  \/ \E r \in ReqIds, c \in CustomerNames, items \in SingleItemLists :
       RaceFree(r) /\ CreateOrderInsert(r, "pending", c, items)
  \/ \E r \in ReqIds : CreateOrderItems(r)
  \/ \E r \in ReqIds : CreateOrderGet(r)
  \/ \E r \in ReqIds : CreateOrderUpdate(r)
  \/ \E r \in ReqIds : CreateOrderMovement(r)
  \/ \E r \in ReqIds : CreateOrderFlag(r)
  \/ Tick

SpecMixedRace == InitStocked /\ [][NextMixedRace]_vars

\* ---------------------------------------------------------------- specification: GRN submissions in sequence
NextGrnSeq ==
  \/ \E r \in ReqIds, c \in CustomerNames : SeqFreeOrder(r) /\ CreateOrderInsert(r, "pending", c, <<>>)
  \/ \E r \in ReqIds, id \in OrderIds, h \in Headers, g \in GrnItemLists :
       SeqFree(r) /\ RequestApprovalStart(r, id, h, g, Null, Null)
  \/ \E r \in ReqIds : UpsertUpdate(r)
  \/ \E r \in ReqIds : UpsertDelete(r)
  \/ \E r \in ReqIds : UpsertInsert(r)
  \/ \E r \in ReqIds : UpsertInsertItems(r)
  \/ \E r \in ReqIds : UpsertOrder(r)

SpecGrnSeq == Init /\ [][NextGrnSeq]_vars

\* ---------------------------------------------------------------- specification: racing GRN submissions
\* One order placed without items; its GRN either not yet submitted or submitted once.
InitGrn ==
  /\ now = 1
  /\ products = [p \in ProductIds |-> NoProduct]
  /\ movements = <<>>
  /\ orders = <<orderRow("pending", "alice")>>
  /\ orderItems = <<>>
  /\ \/ grns = <<>> /\ grnItems = <<>>
     \/ grns = <<[orderId |-> 1, vendorName |-> "v1", poNo |-> Null]>> /\ grnItems = <<[grnId |-> 1, val |-> "a"]>>
  /\ customers = <<>>
  /\ warehouseStock = <<>>
  /\ reqs = [r \in ReqIds |-> NoReq]

NextGrnRace ==
  \/ \E r \in ReqIds, h \in Headers, g \in GrnItemLists :
       RaceFree(r) /\ hasGrn(h) /\ RequestApprovalStart(r, 1, h, g, Null, Null)
  \/ \E r \in ReqIds : UpsertUpdate(r)
  \/ \E r \in ReqIds : UpsertDelete(r)
  \/ \E r \in ReqIds : UpsertInsert(r)
  \/ \E r \in ReqIds : UpsertInsertItems(r)
  \/ \E r \in ReqIds : UpsertOrder(r)

SpecGrnRace == InitGrn /\ [][NextGrnRace]_vars

\* ---------------------------------------------------------------- specification: order lifecycle
NextLifecycle ==
  \/ \E r \in ReqIds, total \in Qtys : SeqFree(r) /\ CreateProduct(r, total, 0)
  \/ \E r \in ReqIds, st \in OrderStatusInputs, c \in CustomerNames, items \in ItemLists :
       SeqFreeOrder(r) /\ CreateOrderInsert(r, st, c, items)
  \/ \E r \in ReqIds : CreateOrderItems(r)
  \/ \E r \in ReqIds : CreateOrderGet(r)
  \/ \E r \in ReqIds : CreateOrderUpdate(r)
  \/ \E r \in ReqIds : CreateOrderMovement(r)
  \/ \E r \in ReqIds : CreateOrderFlag(r)
  \/ \E r \in ReqIds, id \in OrderIds, st \in StatusInputs : SeqFree(r) /\ UpdateOrderStatus(r, id, st)
  \/ \E r \in ReqIds, id \in OrderIds, h \in Headers, g \in GrnItemLists :
       SeqFree(r) /\ RequestApprovalStart(r, id, h, g, Null, Null)
  \/ \E r \in ReqIds : UpsertUpdate(r)
  \/ \E r \in ReqIds : UpsertDelete(r)
  \/ \E r \in ReqIds : UpsertInsert(r)
  \/ \E r \in ReqIds : UpsertInsertItems(r)
  \/ \E r \in ReqIds : UpsertOrder(r)
  \/ \E r \in ReqIds, id \in OrderIds, u \in Users : SeqFree(r) /\ ApproveOrder(r, id, u, Null)

SpecLifecycle == Init /\ [][NextLifecycle]_vars

\* ---------------------------------------------------------------- specification: two setStock requests in a row
\* The tables after the products were created, no request started yet.
InitCreated ==
  /\ now = 1
  /\ \E total \in [ProductIds -> Qtys], used \in [ProductIds -> 0..1] :
       products = [p \in ProductIds |-> createProductRow([stockTotal |-> total[p], stockUsed |-> used[p]])]
  /\ movements = <<>>
  /\ orders = <<>>
  /\ orderItems = <<>>
  /\ grns = <<>>
  /\ grnItems = <<>>
  /\ customers = <<>>
  /\ warehouseStock = <<>>
  /\ reqs = [r \in ReqIds |-> NoReq]

NextPair ==
  \/ \E r \in ReqIds, id \in ProductIds, a \in StockActions, q \in Qtys :
       InOrder(r) /\ SetStockGet(r, id, a, q)
  \/ \E r \in ReqIds : SetStockUpdate(r)
  \/ \E r \in ReqIds : SetStockMovement(r)

SpecPair == InitCreated /\ [][NextPair]_vars

\* ---------------------------------------------------------------- specification: every operation against the log
\* The operations are aimed at the first product and the first order.
UnitItemLists == {<<[productId |-> 1, quantity |-> 1]>>}

NextAudit ==
  \/ \E r \in ReqIds : SeqFree(r) /\ CreateProduct(r, 1, 0)
  \/ \E r \in ReqIds : SeqFree(r) /\ UpdateProduct(r, 1, {"stockTotal"}, 2)
  \/ \E r \in ReqIds : SeqFree(r) /\ DeleteProduct(r, 1)
  \/ \E r \in ReqIds, a \in StockActions : SeqFree(r) /\ SetStockGet(r, 1, a, 1)
  \/ \E r \in ReqIds : SetStockUpdate(r)
  \/ \E r \in ReqIds : SetStockMovement(r)
  \/ \E r \in ReqIds, c \in CustomerNames, items \in UnitItemLists :
       SeqFreeOrder(r) /\ CreateOrderInsert(r, "pending", c, items)
  \/ \E r \in ReqIds : CreateOrderItems(r)
  \/ \E r \in ReqIds : CreateOrderGet(r)
  \/ \E r \in ReqIds : CreateOrderUpdate(r)
  \/ \E r \in ReqIds : CreateOrderMovement(r)
  \/ \E r \in ReqIds : CreateOrderFlag(r)
  \/ \E r \in ReqIds, id \in OrderIds \cap {1}, st \in {"shipped", "cancelled"} :
       SeqFree(r) /\ UpdateOrderStatus(r, id, st)
  \/ \E r \in ReqIds, id \in OrderIds \cap {1},
          h \in {[vendorName |-> Null, poNo |-> Null], [vendorName |-> "v1", poNo |-> Null]} :
       SeqFree(r) /\ RequestApprovalStart(r, id, h, IF hasGrn(h) THEN <<"a">> ELSE <<>>, Null, Null)
  \/ \E r \in ReqIds : UpsertUpdate(r)
  \/ \E r \in ReqIds : UpsertDelete(r)
  \/ \E r \in ReqIds : UpsertInsert(r)
  \/ \E r \in ReqIds : UpsertInsertItems(r)
  \/ \E r \in ReqIds : UpsertOrder(r)
  \/ \E r \in ReqIds, id \in OrderIds \cap {1}, u \in Users : SeqFree(r) /\ ApproveOrder(r, id, u, Null)

SpecAudit == Init /\ [][NextAudit]_vars

\* ---------------------------------------------------------------- specification: stock operations on missing products
NextMissing ==
  \/ \E r \in ReqIds : SeqFree(r) /\ CreateProduct(r, 1, 0)
  \/ \E r \in ReqIds, id \in ProductIds \cup {0}, a \in StockActions :
       SeqFree(r) /\ SetStockGet(r, id, a, 1)
  \/ \E r \in ReqIds : SetStockUpdate(r)
  \/ \E r \in ReqIds : SetStockMovement(r)
  \/ \E r \in ReqIds, c \in CustomerNames, items \in AnyItemLists :
       SeqFreeOrder(r) /\ CreateOrderInsert(r, "pending", c, items)
  \/ \E r \in ReqIds : CreateOrderItems(r)
  \/ \E r \in ReqIds : CreateOrderGet(r)
  \/ \E r \in ReqIds : CreateOrderUpdate(r)
  \/ \E r \in ReqIds : CreateOrderMovement(r)
  \/ \E r \in ReqIds : CreateOrderFlag(r)
  \/ Elapse

SpecMissing == Init /\ [][NextMissing]_vars

\* ---------------------------------------------------------------- specification: order operations on missing orders
\* the ids the order routes are called with: those of the orders, and one that no order has
OrderIdInputs == OrderIds \cup {0}

NextNotFound ==
  \/ \E r \in ReqIds, c \in CustomerNames : SeqFreeOrder(r) /\ CreateOrderInsert(r, "pending", c, <<>>)
  \/ \E r \in ReqIds, id \in OrderIdInputs, st \in OrderStatusInputs : SeqFree(r) /\ UpdateOrderStatus(r, id, st)
  \/ \E r \in ReqIds, id \in OrderIdInputs, h \in Headers, g \in GrnItemLists :
       SeqFree(r) /\ RequestApprovalStart(r, id, h, g, Null, Null)
  \/ \E r \in ReqIds : UpsertUpdate(r)
  \/ \E r \in ReqIds : UpsertDelete(r)
  \/ \E r \in ReqIds : UpsertInsert(r)
  \/ \E r \in ReqIds : UpsertInsertItems(r)
  \/ \E r \in ReqIds : UpsertOrder(r)
  \/ \E r \in ReqIds, id \in OrderIdInputs, u \in Users : SeqFree(r) /\ ApproveOrder(r, id, u, Null)

SpecNotFound == Init /\ [][NextNotFound]_vars

\* ---------------------------------------------------------------- specification: order placement through the route
\* A request that will pass validation is sent while the orders table has room.
NextValidate ==
  \/ \E r \in ReqIds, total \in 0..1 : SeqFree(r) /\ CreateProduct(r, total, 0)
  \/ \E r \in ReqIds, order \in OrderRecords, items \in RawItemLists :
       /\ SeqFree(r) /\ (Len(orders) < MaxOrders \/ ~validOrder(order) \/ \E i \in 1..Len(items) : ~validItem(items[i]))
       /\ PostOrder(r, order, items)
  \/ \E r \in ReqIds : PostOrderCustomers(r)
  \/ \E r \in ReqIds : PostOrderCreateCustomer(r)
  \/ \E r \in ReqIds : PostOrderInsert(r)
  \/ \E r \in ReqIds : CreateOrderItems(r)
  \/ \E r \in ReqIds : CreateOrderGet(r)
  \/ \E r \in ReqIds : CreateOrderUpdate(r)
  \/ \E r \in ReqIds : CreateOrderMovement(r)
  \/ \E r \in ReqIds : CreateOrderFlag(r)

SpecValidate == Init /\ [][NextValidate]_vars

\* ---------------------------------------------------------------- specification: repeated approval
NextApprove ==
  \/ \E r \in ReqIds, st \in OrderStatusInputs, c \in CustomerNames :
       SeqFreeOrder(r) /\ CreateOrderInsert(r, st, c, <<>>)
  \/ \E r \in ReqIds, id \in OrderIds, u \in Approvers, n \in NoteInputs :
       SeqFree(r) /\ ApproveOrder(r, id, u, n)
  \/ Tick

SpecApprove == Init /\ [][NextApprove]_vars

\* ---------------------------------------------------------------- claims
LedgerInvariant(p) == p.exists => p.stockAvailable = p.stockTotal - p.stockUsed

\* C1: starting from products created with stockUsed = 0, after any sequence of
\* setStock requests (add, use, adjust; run one after another) every product
\* satisfies stockAvailable = stockTotal - stockUsed.
C1_SetStockKeepsInvariant ==
  Quiescent => \A p \in ProductIds : LedgerInvariant(products[p])

C1_Witness ==
  /\ Len(movements) = 2
  /\ reqs[1].kind = "setStock" /\ reqs[1].pc = "done" /\ reqs[1].res = 200
  /\ movements[1].action = "use" /\ movements[1].quantity = -2
  /\ movements[2].action = "adjust" /\ movements[2].quantity = 1
  /\ products[1].stockUsed = 2 /\ products[1].stockTotal = 1 /\ products[1].stockAvailable = -1

\* C2: every mutating operation (createProduct, updateProduct, deleteProduct,
\* setStock, createOrder, run one after another) leaves every product with
\* stockAvailable = stockTotal - stockUsed.
C2_EveryMutationKeepsInvariant ==
  Quiescent => \A p \in ProductIds : LedgerInvariant(products[p])

\* A createOrder request that has returned its order (201).
PlacedOrder(r) == reqs[r].kind = "createOrder" /\ reqs[r].pc = "done" /\ reqs[r].res = 201

OrderMovements(o) == {i \in 1..Len(movements) : movements[i].orderId = o}

\* C3: once a createOrder that ran alone has completed, every item whose quantity
\* exceeded the stockAvailable read before its decrement has left the product
\* with a negative stockAvailable, a movement with quantity = -item.quantity and
\* the before/after snapshot, and the order flagged needs_approval with the
\* request metadata stamped (customer name as requester).
C3_OversellEscalates ==
  \A r \in ReqIds : PlacedOrder(r) =>
    \A i \in 1..Len(reqs[r].items) :
      LET q == reqs[r]
          item == q.items[i]
          o == orders[q.orderId]
      IN (q.seen[i].exists /\ item.quantity > q.seen[i].stockAvailable) =>
           /\ products[item.productId].stockAvailable < 0
           /\ \E m \in OrderMovements(q.orderId) :
                /\ movements[m].productId = item.productId
                /\ movements[m].quantity = -item.quantity
                /\ movements[m].previousStock = q.seen[i].stockAvailable
                /\ movements[m].newStock = q.seen[i].stockTotal - (q.seen[i].stockUsed + item.quantity)
           /\ o.status = "needs_approval" /\ o.approvalStatus = "needs_approval"
           /\ o.approvalRequestedAt # NoTime /\ o.approvalRequestedBy = q.customerName

AllWithinStock(q) ==
  \A i \in 1..Len(q.items) : q.seen[i].exists /\ q.items[i].quantity <= q.seen[i].stockAvailable

\* the items of q that come after item i and name the same product
LaterSame(q, i) == {j \in (i+1)..Len(q.items) : q.items[j].productId = q.items[i].productId}

\* C4: once a createOrder that ran alone has completed with every item's quantity
\* within the stockAvailable read at its decrement, the stored order keeps the
\* caller's status, has no approvalStatus and no approval-request metadata,
\* while every item has raised stockUsed by its quantity and logged one movement.
C4_WithinStockStaysPending ==
  \A r \in ReqIds : (PlacedOrder(r) /\ AllWithinStock(reqs[r])) =>
    LET q == reqs[r]
        o == orders[q.orderId]
    IN /\ o.status = q.status
       /\ o.approvalStatus # "needs_approval"
       /\ o.approvalRequestedAt = NoTime /\ o.approvalRequestedBy = Null
       /\ Cardinality(OrderMovements(q.orderId)) = Len(q.items)
       /\ \A i \in 1..Len(q.items) :
            LET after == IF LaterSame(q, i) = {} THEN products[q.items[i].productId]
                         ELSE q.seen[CHOOSE j \in LaterSame(q, i) : \A k \in LaterSame(q, i) : j <= k]
            IN /\ after.stockUsed = q.seen[i].stockUsed + q.items[i].quantity
               /\ after.stockAvailable = q.seen[i].stockTotal - after.stockUsed

C4_Witness ==
  /\ PlacedOrder(1) /\ AllWithinStock(reqs[1]) /\ Len(reqs[1].items) > 0
  /\ reqs[1].status = "shipped"
  /\ products[reqs[1].items[1].productId].stockUsed > 0

\* C5: once every createOrder request has completed, interleaved or not, each
\* product's stockUsed is its initial stockUsed (0) plus the sum of all ordered
\* quantities, and stockAvailable has dropped from stockTotal by the same sum.
C5_AllItemsDecremented ==
  Quiescent => \A p \in ProductIds :
    /\ products[p].stockUsed = Ordered(orderItems, p)
    /\ products[p].stockAvailable = products[p].stockTotal - Ordered(orderItems, p)

\* two completed order placements that read the same stockAvailable of one product,
\* each quantity within it
SameRead(r1, r2) ==
  /\ r1 # r2 /\ PlacedOrder(r1) /\ PlacedOrder(r2)
  /\ reqs[r1].items[1].productId = reqs[r2].items[1].productId
  /\ reqs[r1].seen[1].stockAvailable = reqs[r2].seen[1].stockAvailable
  /\ AllWithinStock(reqs[r1]) /\ AllWithinStock(reqs[r2])

\* C6: the oversell test is a read-check-then-write: when two createOrder requests
\* on one product have both read the same stockAvailable, each quantity within it,
\* both orders end pending and unflagged, also when the two quantities together
\* exceed what was read (the witness).
C6_RaceLeavesBothPending ==
  \A r1, r2 \in ReqIds : SameRead(r1, r2) =>
    /\ orders[reqs[r1].orderId].status = "pending"
    /\ orders[reqs[r2].orderId].status = "pending"
    /\ orders[reqs[r1].orderId].approvalStatus # "needs_approval"
    /\ orders[reqs[r2].orderId].approvalStatus # "needs_approval"

C6_Witness ==
  /\ SameRead(1, 2)
  /\ reqs[1].items[1].quantity + reqs[2].items[1].quantity > reqs[1].seen[1].stockAvailable
  /\ orders[reqs[1].orderId].status = "pending" /\ orders[reqs[2].orderId].status = "pending"

\* C7: under any interleaving of a setStock request and a createOrder request,
\* stockAvailable = stockTotal - stockUsed holds once both have completed.
C7_RaceKeepsInvariant ==
  Quiescent => \A p \in ProductIds : LedgerInvariant(products[p])

\* a submission with a GRN header that has completed
SubmittedGrn(r) ==
  /\ reqs[r].kind = "submitApprovalWithGrn" /\ reqs[r].pc = "done" /\ reqs[r].res = 200
  /\ hasGrn(reqs[r].header)

\* C8: after approval input with a GRN was submitted for an order (again), the
\* order has exactly one GRN row, the row carries the header fields of that
\* submission, and its items are exactly the items of that submission.
C8_ResubmitReplacesItems ==
  \A r \in ReqIds : SubmittedGrn(r) =>
    LET q == reqs[r]
    IN /\ Cardinality(GrnsOf(q.id)) = 1
       /\ \A g \in GrnsOf(q.id) :
            /\ q.header.vendorName # Null => grns[g].vendorName = q.header.vendorName
            /\ q.header.poNo # Null => grns[g].poNo = q.header.poNo
            /\ ItemsOf(grnItems, g) = q.gitems
       /\ \A i \in 1..Len(grnItems) : grnItems[i].grnId \in 1..Len(grns)

C8_Witness ==
  /\ SubmittedGrn(1) /\ reqs[1].existing # 0 /\ reqs[1].deleted > 0
  /\ Len(ItemsOf(grnItems, reqs[1].grnId)) = Len(reqs[1].gitems)

\* the item lists a GRN of the order may carry: those of the submissions, or the
\* ones it had before them
SubmittedItems(o) ==
  {reqs[r].gitems : r \in {x \in ReqIds : reqs[x].kind = "submitApprovalWithGrn" /\ reqs[x].id = o}}
    \cup {<<>>, <<"a">>}

\* C9: at most one GRN row exists per order in every reachable state, racing
\* submissions included, and once they have completed the GRN's items are the
\* items of one submission, never a union.
C9_OneGrnPerOrder ==
  \A o \in OrderIds :
    /\ Cardinality(GrnsOf(o)) <= 1
    /\ Quiescent => \A g \in GrnsOf(o) : ItemsOf(grnItems, g) \in SubmittedItems(o)

LifecycleEdges ==
  {<<"pending", "needs_approval">>, <<"pending", "shipped">>, <<"pending", "delivered">>,
   <<"pending", "cancelled">>, <<"needs_approval", "approved">>, <<"approved", "shipped">>,
   <<"approved", "delivered">>, <<"approved", "cancelled">>}

\* C10: every change of an order's status follows an edge of the lifecycle, and
\* no status outside the six values is ever stored.
C10_StatusFollowsLifecycle ==
  [][\A o \in 1..Len(orders') :
        /\ orders'[o].status \in Statuses
        /\ (o <= Len(orders) /\ orders'[o].status # orders[o].status) =>
             <<orders[o].status, orders'[o].status>> \in LifecycleEdges]_vars
\* C11: once an order's approvalStatus is approved it stays approved, whatever
\* requestApproval, submitApprovalWithGrn, updateOrderStatus or approveOrder
\* call follows.
C11_ApprovedIsTerminal ==
  [][\A o \in 1..Len(orders) :
        orders[o].approvalStatus = "approved" => orders'[o].approvalStatus = "approved"]_vars

\* an approveOrder call on an existing order that has answered
Approved(r) ==
  reqs[r].kind = "approveOrder" /\ reqs[r].pc = "done" /\ reqs[r].res = 200 /\ reqs[r].id \in OrderIds

\* the order as the call found it was already approved by an earlier call
SecondApproval(r) == Approved(r) /\ reqs[r].prior.approvalStatus = "approved"

\* what every approveOrder call leaves on the order
ApprovalStamped(q, o) ==
  /\ o.status = "approved" /\ o.approvalStatus = "approved"
  /\ o.approvedBy = q.approvedBy /\ o.approvalNotes = q.notes
  /\ o.approvedAt # NoTime /\ o.approvedAt >= q.prior.updatedAt

AddThenUse ==
  /\ reqs[1].kind = "setStock" /\ reqs[1].action = "add" /\ reqs[1].res = 200
  /\ reqs[2].kind = "setStock" /\ reqs[2].action = "use" /\ reqs[2].res = 200 /\ reqs[2].pc = "done"
  /\ reqs[2].id = reqs[1].id /\ reqs[2].quantity = reqs[1].quantity

\* C13: setStock add n followed immediately by setStock use n leaves the
\* product's stockAvailable at its value before the add, and the two requests
\* have appended exactly two movements for the product, +n then -n.
C13_AddThenUseRestores ==
  AddThenUse =>
    /\ products[reqs[1].id].stockAvailable = reqs[1].product.stockAvailable
    /\ Len(movements) = 2
    /\ \A m \in 1..2 : movements[m].productId = reqs[1].id
    /\ movements[1].quantity = reqs[1].quantity /\ movements[2].quantity = -reqs[1].quantity
    /\ movements[1].quantity + movements[2].quantity = 0
    /\ movements[1].previousStock = reqs[1].product.stockAvailable
    /\ movements[2].newStock = reqs[1].product.stockAvailable

C13_Witness ==
  /\ AddThenUse /\ reqs[1].quantity = 2
  /\ reqs[1].product.stockUsed = 1 /\ products[reqs[1].id].stockUsed = 3
\* a setStock adjust that has answered success
Adjusted(r) ==
  /\ reqs[r].kind = "setStock" /\ reqs[r].action = "adjust"
  /\ reqs[r].pc = "done" /\ reqs[r].res = 200

\* C14: setStock adjust n sets stockTotal to n whatever it was, leaves stockUsed
\* as it was and sets stockAvailable to n - stockUsed.
C14_AdjustSetsTotal ==
  \A r \in ReqIds : Adjusted(r) =>
    LET q == reqs[r]
        p == products[q.id]
    IN /\ p.stockTotal = q.quantity
       /\ p.stockUsed = q.product.stockUsed
       /\ p.stockAvailable = q.quantity - q.product.stockUsed

C14_Witness ==
  /\ Adjusted(1) /\ reqs[1].quantity = 0
  /\ reqs[1].product.stockTotal = 2 /\ reqs[1].product.stockUsed = 1
  /\ products[reqs[1].id].stockAvailable = -1

\* C15: every movement stores the signed delta of its action: quantity =
\* newStock - previousStock, for every action setStock accepts and for createOrder.
C15_QuantityIsDelta ==
  \A m \in 1..Len(movements) :
    movements[m].quantity = movements[m].newStock - movements[m].previousStock
\* C16: the movement log is append-only: every step of every operation leaves
\* the records already in the log as they are, so the log of a later state
\* extends the log of an earlier one.
C16_LogIsAppendOnly ==
  [][/\ Len(movements') >= Len(movements)
     /\ SubSeq(movements', 1, Len(movements)) = movements]_vars

\* an order's movement logged, then the product soft-deleted
C16_Witness ==
  /\ Len(movements) = 1 /\ movements[1].orderId # 0
  /\ reqs[1].kind = "deleteProduct" /\ reqs[1].pc = "done"
  /\ ~products[reqs[1].id].isActive /\ movements[1].productId = reqs[1].id
Counters(p) == <<p.stockTotal, p.stockUsed, p.stockAvailable>>

\* a setStock or updateProduct request that has completed and changed the counters
ChangedCounters(r) ==
  /\ reqs[r].kind \in {"setStock", "updateProduct"} /\ reqs[r].pc = "done" /\ reqs[r].res = 200
  /\ reqs[r].product.exists
  /\ Counters(products[reqs[r].id]) # Counters(reqs[r].product)

\* C17: in a sequential execution every completed operation that changed a
\* product's counters (setStock, updateProduct with stock fields, createOrder per
\* item) has appended exactly one movement for the product, whose previousStock
\* and newStock are the stockAvailable before and after the change.
C17_EveryLedgerWriteIsLogged ==
  \A r \in ReqIds :
    /\ ChangedCounters(r) =>
         /\ Len(movements) = reqs[r].moves + 1
         /\ movements[Len(movements)].productId = reqs[r].id
         /\ movements[Len(movements)].previousStock = reqs[r].product.stockAvailable
         /\ movements[Len(movements)].newStock = products[reqs[r].id].stockAvailable
    /\ PlacedOrder(r) =>
         /\ Len(movements) = reqs[r].moves + Len(reqs[r].items)
         /\ \A i \in 1..Len(reqs[r].items) :
              \E m \in OrderMovements(reqs[r].orderId) :
                /\ movements[m].productId = reqs[r].items[i].productId
                /\ movements[m].previousStock = reqs[r].seen[i].stockAvailable
                /\ LaterSame(reqs[r], i) = {} =>
                     movements[m].newStock = products[reqs[r].items[i].productId].stockAvailable
\* no row of the products table has this id
Missing(id) == id \notin ProductIds \/ ~products[id].exists

\* the request names a product that does not exist
NamesMissingProduct(q) ==
  \/ q.kind = "setStock" /\ Missing(q.id)
  \/ q.kind = "createOrder" /\ \E i \in 1..Len(q.items) : Missing(q.items[i].productId)

OrderOperations == {"approveOrder", "requestApproval", "submitApprovalWithGrn", "updateOrderStatus"}

\* C19: an order operation that names an order id no order has is answered
\* not-found (404), never success, and leaves no GRN and no GrnItem row behind.
C19_MissingOrderIsNotFound ==
  \A r \in ReqIds :
    (reqs[r].kind \in OrderOperations /\ reqs[r].pc = "done" /\ reqs[r].id \notin OrderIds) =>
      /\ reqs[r].res = 404
      /\ GrnsOf(reqs[r].id) = {}
      /\ \A i \in 1..Len(grnItems) : grnItems[i].grnId \in 1..Len(grns) /\ grns[grnItems[i].grnId].orderId \in OrderIds
\* a createOrder request whose order record or one of whose items fails validation
FailsValidation(q) ==
  /\ q.kind = "createOrder"
  /\ ~validOrder(q) \/ \E i \in 1..Len(q.items) : ~validItem(q.items[i])

\* C20: a createOrder request whose order record or any item fails schema
\* validation is answered 400 in its first step, and that step creates no
\* customer, order or order-item row, changes no counter and appends no movement.
C20_InvalidOrderIsRejected ==
  [][\A r \in ReqIds :
        (reqs'[r] # reqs[r] /\ FailsValidation(reqs'[r])) =>
          /\ reqs'[r].pc = "done" /\ reqs'[r].res = 400
          /\ customers' = customers /\ orders' = orders /\ orderItems' = orderItems
          /\ products' = products /\ movements' = movements]_vars

\* after one order was placed, a valid order record with an e-mail address and an
\* invalid item was turned away
C20_Witness ==
  /\ FailsValidation(reqs[1]) /\ reqs[1].pc = "done" /\ reqs[1].res = 400
  /\ validOrder(reqs[1]) /\ reqs[1].customerEmail # Null
  /\ \E p \in ProductIds : products[p].exists /\ products[p].stockUsed = 1
  /\ Len(customers) = 1 /\ Len(orders) = 1 /\ Len(orderItems) = 1 /\ Len(movements) = 1

\* ---------------------------------------------------------------- order numbers
CompletedOrder(r) == reqs[r].kind = "createOrder" /\ reqs[r].pc = "done"

\* C21: any two createOrder calls that have completed, also two that ran in the
\* same clock tick, have both stored their order, under distinct order numbers.
C21_EveryOrderIsStored ==
  \A r1, r2 \in ReqIds : (r1 # r2 /\ CompletedOrder(r1) /\ CompletedOrder(r2)) =>
    /\ reqs[r1].orderId \in OrderIds
    /\ reqs[r2].orderId \in OrderIds
    /\ orders[reqs[r1].orderId].orderNumber # orders[reqs[r2].orderId].orderNumber

\* ---------------------------------------------------------------- specification: a failing order placement
\* orders of up to MaxItems + 1 lines of two pieces each, so that a failure can fall
\* between two items
LongItemLists == SeqsUpTo([productId : ProductIds, quantity : {2}], MaxItems + 1) \ {<<>>}

NextFail ==
  \/ \E r \in ReqIds, total \in Qtys : SeqFree(r) /\ CreateProduct(r, total, 0)
  \/ \E r \in ReqIds, c \in CustomerNames, items \in LongItemLists :
       SeqFreeOrder(r) /\ CreateOrderInsert(r, "pending", c, items)
  \/ \E r \in ReqIds : CreateOrderItems(r)
  \/ \E r \in ReqIds : CreateOrderGet(r)
  \/ \E r \in ReqIds : CreateOrderUpdate(r)
  \/ \E r \in ReqIds : CreateOrderMovement(r)
  \/ \E r \in ReqIds : CreateOrderFlag(r)
  \/ \E r \in ReqIds : CreateOrderFail(r)
  \/ Elapse

SpecFail == Init /\ [][NextFail]_vars

\* a createOrder that failed in its per-item loop, at item idx
FailedOrder(r) == reqs[r].kind = "createOrder" /\ reqs[r].pc = "done" /\ reqs[r].failed # Null

\* the items whose counter update was completed before the failure
Decremented(q) == SubSeq(q.items, 1, IF q.failed = "movement" THEN q.idx ELSE q.idx - 1)

\* C22: when a createOrder that ran alone failed at its k-th item, the order row
\* (as inserted, not flagged needs_approval) and all order-item rows exist, the
\* items before k have their movements logged in order, every product's
\* counters are those found plus the quantities of the items whose update was
\* completed (items before k, and item k when the failure fell between its
\* update and its movement), and nothing else was written.
C22_FailureKeepsCompletedWrites ==
  \A r \in ReqIds : FailedOrder(r) =>
    LET q == reqs[r]
        k == q.idx
    IN /\ q.orderId \in OrderIds
       /\ orders[q.orderId] = q.returned
       /\ orders[q.orderId].status = q.status /\ orders[q.orderId].approvalStatus = Null
       /\ SelectSeq(orderItems, LAMBDA it : it.orderId = q.orderId)
            = [i \in 1..Len(q.items) |-> [orderId |-> q.orderId, productId |-> q.items[i].productId,
                                          quantity |-> q.items[i].quantity]]
       /\ Len(movements) = q.moves + k - 1
       /\ \A i \in 1..(k - 1) :
            LET m == movements[q.moves + i]
            IN m.orderId = q.orderId /\ m.action = "use" /\ m.productId = q.items[i].productId
               /\ m.quantity = -q.items[i].quantity
       /\ \A p \in ProductIds :
            LET taken == Ordered(Decremented(q), p)
            IN products[p] = IF taken = 0 THEN q.prior[p]
                             ELSE [q.prior[p] EXCEPT !.stockUsed = @ + taken,
                                                     !.stockAvailable = q.prior[p].stockTotal - (q.prior[p].stockUsed + taken)]

\* the failure fell at the second item, after the first one oversold
C22_Witness ==
  /\ FailedOrder(1) /\ reqs[1].idx = 2 /\ reqs[1].needsApproval
  /\ Len(movements) = reqs[1].moves + 1
  /\ products[reqs[1].items[1].productId].stockAvailable < 0

\* ---------------------------------------------------------------- specification: the Warehouse Stock Map
NextWarehouse ==
  \/ \E r \in ReqIds : SeqFree(r) /\ CreateProduct(r, 1, 0)
  \/ \E r \in ReqIds, p \in ProductIds, w \in WarehouseInputs, q \in Qtys :
       SeqFree(r) /\ SetQuantityGet(r, p, w, q)
  \/ \E r \in ReqIds : SetQuantityWrite(r)

SpecWarehouse == Init /\ [][NextWarehouse]_vars

SamePair(a, b) == a.productId = b.productId /\ a.warehouseId = b.warehouseId

\* the rows of a warehouse-stock table that belong to other pairs than (p, w)
OtherPairs(rows, p, w) == SelectSeq(rows, LAMBDA row : ~(row.productId = p /\ row.warehouseId = w))

\* C23: when setQuantity calls run one after another, no (product, warehouse)
\* pair ever has more than one WarehouseStock row, and once a call has completed
\* the pair's row carries the quantity of that call (the last one for the pair)
\* while the rows of the other pairs are as the call found them.
C23_UpsertByPair ==
  /\ \A i, j \in DOMAIN warehouseStock : SamePair(warehouseStock[i], warehouseStock[j]) => i = j
  /\ \A r \in ReqIds : (reqs[r].kind = "setQuantity" /\ reqs[r].pc = "done") =>
       LET q == reqs[r]
       IN /\ OtherPairs(warehouseStock, q.id, q.warehouseId) = OtherPairs(q.prior, q.id, q.warehouseId)
          /\ IF q.res = 200
             THEN /\ Cardinality(existingRows(q.id, q.warehouseId)) = 1
                  /\ \A i \in existingRows(q.id, q.warehouseId) : warehouseStock[i].quantity = q.quantity
             ELSE warehouseStock = q.prior

\* a second call for a pair replaced its quantity in place, next to another pair's row
C23_Witness ==
  /\ reqs[1].kind = "setQuantity" /\ reqs[1].pc = "done" /\ reqs[1].res = 200
  /\ reqs[1].existing = 1 /\ Len(warehouseStock) = 2
  /\ \E i \in DOMAIN reqs[1].prior :
       /\ reqs[1].prior[i].warehouseId = reqs[1].warehouseId
       /\ reqs[1].prior[i].quantity # reqs[1].quantity
       /\ warehouseStock[i].quantity = reqs[1].quantity

\* ---------------------------------------------------------------- specification: the two stock stores
NextStores ==
  \/ \E r \in ReqIds : SeqFree(r) /\ CreateProduct(r, 1, 0)
  \/ \E r \in ReqIds, p \in ProductIds, q \in OrderQtys : SeqFree(r) /\ SetQuantityGet(r, p, "w1", q)
  \/ \E r \in ReqIds : SetQuantityWrite(r)
  \/ \E r \in ReqIds, id \in ProductIds, a \in {"add", "use"}, w \in {Null, "w1"} :
       SeqFree(r) /\ SetStockAt(r, id, a, 1, w)
  \/ \E r \in ReqIds : SetStockUpdate(r)
  \/ \E r \in ReqIds : SetStockMovement(r)
  \/ \E r \in ReqIds, c \in CustomerNames, items \in UnitItemLists :
       SeqFreeOrder(r) /\ CreateOrderInsert(r, "pending", c, items)
  \/ \E r \in ReqIds : CreateOrderItems(r)
  \/ \E r \in ReqIds : CreateOrderGet(r)
  \/ \E r \in ReqIds : CreateOrderUpdate(r)
  \/ \E r \in ReqIds : CreateOrderMovement(r)
  \/ \E r \in ReqIds : CreateOrderFlag(r)

SpecStores == Init /\ [][NextStores]_vars

\* this step is one of request r, which is of the given kind
StepOf(r, kind) == reqs'[r] # reqs[r] /\ reqs'[r].kind = kind

\* C24: no step of a setQuantity call changes a product row or the movement log,
\* and no step of a setStock request (with or without a warehouseId) or of a
\* createOrder changes the WarehouseStock rows.
C24_StoresAreIndependent ==
  [][\A r \in ReqIds :
       /\ StepOf(r, "setQuantity") => (products' = products /\ movements' = movements)
       /\ (StepOf(r, "setStock") \/ StepOf(r, "createOrder")) => warehouseStock' = warehouseStock]_vars

\* a setStock naming warehouse w1 has changed the product's total, and the
\* quantity stored for the product in w1 differs from it
C24_Witness ==
  /\ reqs[1].kind = "setStock" /\ reqs[1].pc = "done" /\ reqs[1].res = 200
  /\ reqs[1].warehouseId = "w1"
  /\ products[reqs[1].id].stockTotal # reqs[1].product.stockTotal
  /\ \E i \in existingRows(reqs[1].id, "w1") : warehouseStock[i].quantity # products[reqs[1].id].stockTotal

\* ---------------------------------------------------------------- specification: customers of orders
\* req.body.order with a name (possibly empty) and possibly an e-mail address
CustomerOrders == [customerName : {"alice", ""}, customerEmail : {Null, "a@x", "b@x"}, status : {"pending"}]

NextCustomers ==
  \/ \E r \in ReqIds, order \in CustomerOrders :
       SeqFree(r) /\ Len(orders) <= MaxOrders /\ PostOrder(r, order, <<>>)
  \/ \E r \in ReqIds : PostOrderCustomers(r)
  \/ \E r \in ReqIds : PostOrderCreateCustomer(r)
  \/ \E r \in ReqIds : PostOrderInsert(r)
  \/ Elapse

SpecCustomers == Init /\ [][NextCustomers]_vars

NoSharedEmail == \A c, d \in DOMAIN customers : customers[c].email = customers[d].email => c = d

SameEmail(o1, o2) == orders[o1].customerEmail # Null /\ orders[o1].customerEmail = orders[o2].customerEmail

\* C25: in any sequence of order placements run one after another, no two
\* customers share an e-mail address and all orders placed with the same
\* address reference the same customer id.
C25_SameEmailSameCustomer ==
  /\ NoSharedEmail
  /\ \A o1, o2 \in OrderIds : SameEmail(o1, o2) => orders[o1].customerId = orders[o2].customerId

\* C25, amended: no two customers share an e-mail address; an order that
\* references a customer references the one with the order's address, so all
\* such orders of one address reference the same id; an order placed with an
\* address references no customer only when it was placed with an empty name.
C25_SameEmailSameCustomerIfAny ==
  /\ NoSharedEmail
  /\ \A o \in OrderIds :
       /\ orders[o].customerId # 0 =>
            /\ orders[o].customerId \in DOMAIN customers
            /\ customers[orders[o].customerId].email = orders[o].customerEmail
       /\ (orders[o].customerEmail # Null /\ orders[o].customerId = 0) => orders[o].customerName = ""
  /\ \A o1, o2 \in OrderIds :
       (SameEmail(o1, o2) /\ orders[o1].customerId # 0 /\ orders[o2].customerId # 0) =>
         orders[o1].customerId = orders[o2].customerId

\* the second order of an address found the customer that the first one created
C25_Witness ==
  /\ Len(orders) = 2 /\ Len(customers) = 1
  /\ SameEmail(1, 2) /\ orders[1].customerId = 1 /\ orders[2].customerId = 1

\* ---------------------------------------------------------------- specification: CSV import
\* files of up to MaxProducts + 1 data rows, so that an invalid row can precede a valid one
ImportFiles == SeqsUpTo(ImportRows, MaxProducts + 1)

NextImport ==
  \/ \E r \in ReqIds, rows \in ImportFiles, w \in {Null, "w1", "w9"} : SeqFree(r) /\ ImportStart(r, rows, w)
  \/ \E r \in ReqIds : ImportCreate(r)
  \/ \E r \in ReqIds : ImportSelect(r)
  \/ \E r \in ReqIds : ImportWrite(r)

SpecImport == Init /\ [][NextImport]_vars

\* the product rows that the import inserted
Inserted(q) == {p \in ProductIds : products[p].exists /\ ~q.prior[p].exists}

\* C26: once an import that ran alone has answered, the reported count equals
\* the length of the returned product list and the number of product rows the
\* import inserted, also when setting a row's initial warehouse stock failed.
C26_ImportReportsWhatItCreated ==
  \A r \in ReqIds : (reqs[r].kind = "import" /\ reqs[r].pc = "done") =>
    /\ reqs[r].imported = Len(reqs[r].created)
    /\ reqs[r].imported = Cardinality(Inserted(reqs[r]))

\* ---------------------------------------------------------------- approval requests
\* a request-approval call for a stored order that has been answered
AnsweredRequest(r) ==
  /\ reqs[r].kind \in {"requestApproval", "submitApprovalWithGrn"}
  /\ reqs[r].pc = "done" /\ reqs[r].id \in OrderIds

\* C27: once a request-approval call for a stored order has been answered,
\* through either entry point, the order has status = needs_approval and
\* approvalStatus = needs_approval with approvalRequestedAt, approvalRequestedBy
\* and the notes stamped; requestApproval has left the GRN and GrnItem rows as
\* it found them.
C27_EveryRequestTransitions ==
  \A r \in ReqIds : AnsweredRequest(r) =>
    LET q == reqs[r]
        o == orders[q.id]
    IN /\ o.status = "needs_approval" /\ o.approvalStatus = "needs_approval"
       /\ o.approvalRequestedAt # NoTime
       /\ o.approvalRequestedBy = q.requestedBy /\ o.approvalNotes = q.notes
       /\ q.kind = "requestApproval" => grnTables = q.prior

\* ---------------------------------------------------------------- the record createOrder returns
\* C28: once a createOrder that ran alone has returned, the order record it
\* returned (the body of the 201 response) carries the status and the
\* approvalStatus of the stored order, also when an item oversold.
C28_ReturnedOrderIsStoredOrder ==
  \A r \in ReqIds : PlacedOrder(r) =>
    /\ reqs[r].returned.status = orders[reqs[r].orderId].status
    /\ reqs[r].returned.approvalStatus = orders[reqs[r].orderId].approvalStatus

\* ---------------------------------------------------------------- order operations and stock
StatusOrApprovalStep(r) ==
  \/ StepOf(r, "updateOrderStatus")
  \/ StepOf(r, "requestApproval")
  \/ StepOf(r, "submitApprovalWithGrn")
  \/ StepOf(r, "approveOrder")

\* C29: no step of updateOrderStatus (also to cancelled), requestApproval,
\* submitApprovalWithGrn or approveOrder changes a product row, the movement
\* log or an order-item row: what an order consumed is never returned to stock.
C29_OrderOperationsKeepStock ==
  [][\A r \in ReqIds : StatusOrApprovalStep(r) =>
       (products' = products /\ movements' = movements /\ orderItems' = orderItems)]_vars

\* an order that consumed one piece was cancelled: the piece is still counted as used
C29_Witness ==
  /\ reqs[1].kind = "updateOrderStatus" /\ reqs[1].pc = "done" /\ reqs[1].status = "cancelled"
  /\ orders[1].status = "cancelled"
  /\ Len(orderItems) = 1 /\ orderItems[1].orderId = 1
  /\ products[orderItems[1].productId].stockUsed = orderItems[1].quantity
  /\ Len(movements) = 1 /\ movements[1].orderId = 1

\* ---------------------------------------------------------------- the movement chain
\* the movements of product p, in log order
MovementsOf(p) == SelectSeq(movements, LAMBDA m : m.productId = p)

\* C30: in every state where no request is in progress, reached by any
\* interleaving of setStock and createOrder requests, each movement of a
\* product starts (previousStock) where the product's preceding movement ended
\* (newStock), and the product's most recent movement ends at its stockAvailable.
C30_MovementChainIsContinuous ==
  Quiescent => \A p \in ProductIds :
    LET chain == MovementsOf(p)
    IN /\ \A i \in 2..Len(chain) : chain[i].previousStock = chain[i - 1].newStock
       /\ Len(chain) > 0 => chain[Len(chain)].newStock = products[p].stockAvailable

====
